---- MODULE Spec2Model ----
(***************************************************************************)
(* Recursive feature elimination (ExtendedRFE) and its cross-validated     *)
(* feature-count tuner (ExtendedRFECV), src/feature_selection/_rfe.py.     *)
(*                                                                         *)
(* The specifications share the variables of this module:                  *)
(*   SpecSched  the step scheduler ExtendedRFE._get_steps, one loop        *)
(*              iteration per step (SpecSchedFair: the call keeps running);*)
(*   Spec       ExtendedRFE.fit: parameter check, schedule, memoized       *)
(*              elimination (_rfe_fit), selection / rollback, refit;       *)
(*   SpecCV     ExtendedRFECV.fit: fold tasks, aggregation, selection of   *)
(*              the feature count.                                         *)
(*                                                                         *)
(* Numbers.  step, tune_step_at and tuning_step are Python ints or floats. *)
(* A value is modelled as the exact rational num/den; the fractions used   *)
(* (quarters) and the feature counts are exactly representable in binary   *)
(* floating point, so int(x * n) is floor(num * n / den).                  *)
(***************************************************************************)
EXTENDS Integers, Sequences, FiniteSets, TLC

VARIABLES
    self,       \* ExtendedRFE constructor parameters (lines 223-233)
    sch,        \* frame of one _get_steps call
    data,       \* the arguments of fit: X.shape[1], feature_meta
    frame,      \* frame of one ExtendedRFE.fit call
    fitted,     \* support_, ranking_, n_features_, estimator_ on the object
    store,      \* the joblib memory store behind memory.cache(_rfe_fit)
    oracle,     \* what the (deterministic) estimator answers, per fit subset
    log,        \* observation: calls made, results of the previous fit
    cv          \* ExtendedRFECV.fit: fold tasks and aggregation

vars == <<self, sch, data, frame, fitted, store, oracle, log, cv>>

----------------------------------------------------------------------------
(* Bounds of the model *)

\* largest eliminable feature count given to the scheduler alone
MaxSchedFeatures == 9
\* largest absolute step / tuning_step
MaxStep == 3
\* largest n_features_to_select
MaxTarget == 3

\* Python's None where a number is expected (tune_step_at), and where an int is
\* expected (n_features_to_select)
None == [num |-> 0, den |-> 0]
NoneInt == 0 - 1
\* a raise inside a helper that otherwise returns a non-negative int
Raise == 0 - 1

Max(a, b) == IF a >= b THEN a ELSE b
Min(a, b) == IF a <= b THEN a ELSE b

RECURSIVE SumSeq(_)
SumSeq(s) == IF s = <<>> THEN 0 ELSE Head(s) + SumSeq(Tail(s))

----------------------------------------------------------------------------
(* Python numbers *)

Num(k) == [num |-> k, den |-> 1]
Quarter(k) == [num |-> k, den |-> 4]

\* x >= 1.0
GE1(x) == x.num >= x.den
\* 0.0 < x < 1.0
IsFraction(x) == 0 < x.num /\ x.num < x.den
\* x <= 0
LE0(x) == x.num <= 0
\* int(x) for x >= 1
IntOf(x) == x.num \div x.den
\* int(x * n), x > 0, n >= 0
Scale(x, n) == (x.num * n) \div x.den

----------------------------------------------------------------------------
(* ExtendedRFE._get_steps *)

\* the fractional step rounded up instead of truncated
step_local_ceiling(p, n_features) ==
    IF GE1(p.step) THEN IntOf(p.step)
    ELSE IF IsFraction(p.step) /\ ~p.reducing_step
         THEN Max(1, (p.step.num * n_features + p.step.den - 1) \div p.step.den)
    ELSE IF LE0(p.step) THEN Raise
    ELSE 0

\* lines 342-347: the local `step` before the loop.  0 stands for the local
\* left unbound (fractional step with reducing_step), which the loop then
\* assigns before it reads it.
step_local(p, n_features) ==
    IF GE1(p.step) THEN IntOf(p.step)
    ELSE IF IsFraction(p.step) /\ ~p.reducing_step
         THEN Max(1, Scale(p.step, n_features))
    ELSE IF LE0(p.step) THEN Raise
    ELSE 0

\* lines 350-353: the local `tune_step_at`
tune_step_at_local(p, n_features) ==
    IF GE1(p.tune_step_at) THEN IntOf(p.tune_step_at)
    ELSE Max(1, Scale(p.tune_step_at, n_features))

\* lines 354-357
tune_step_at_valid(tsa, n_features, n_features_to_select) ==
    n_features_to_select < tsa /\ tsa < n_features

\* the local `tuning_step` derived from step instead of tuning_step
tuning_step_local_of_step(p, tsa) ==
    IF LE0(p.tuning_step) THEN Raise
    ELSE IF GE1(p.step) THEN IntOf(p.step)
    ELSE IF IsFraction(p.step) /\ ~p.reducing_step
         THEN Max(1, Scale(p.step, tsa))
    ELSE 0

\* a tuning_step <= 0 taken as 1 instead of raising
tuning_step_local_clamped(p, tsa) ==
    IF GE1(p.tuning_step) THEN IntOf(p.tuning_step)
    ELSE IF IsFraction(p.tuning_step) /\ ~p.reducing_step
         THEN Max(1, Scale(p.tuning_step, tsa))
    ELSE IF LE0(p.tuning_step) THEN 1
    ELSE 0

\* lines 358-363: the local `tuning_step`
tuning_step_local(p, tsa) ==
    IF GE1(p.tuning_step) THEN IntOf(p.tuning_step)
    ELSE IF IsFraction(p.tuning_step) /\ ~p.reducing_step
         THEN Max(1, Scale(p.tuning_step, tsa))
    ELSE IF LE0(p.tuning_step) THEN Raise
    ELSE 0

\* the loop with the caps of lines 376 and 388 forgotten: a coarse step is
\* taken whole
next_step_uncapped(p, tsa, tuning_step, step, n_remaining_features) ==
    IF p.tune_step_at # None /\ n_remaining_features <= tsa
    THEN IF IsFraction(p.tuning_step) /\ p.reducing_step
         THEN Max(1, Min(n_remaining_features - 1,
                         Scale(p.tuning_step, n_remaining_features)))
         ELSE Min(n_remaining_features - 1, tuning_step)
    ELSE IF IsFraction(p.step) /\ p.reducing_step
         THEN Max(1, Scale(p.step, n_remaining_features))
         ELSE step

\* the loop with the landing cap of lines 373 and 376 replaced by the
\* remaining-minus-one cap: the coarse phase may step over tune_step_at
next_step_overshoot(p, tsa, tuning_step, step, n_remaining_features) ==
    IF p.tune_step_at # None /\ n_remaining_features <= tsa
    THEN IF IsFraction(p.tuning_step) /\ p.reducing_step
         THEN Max(1, Min(n_remaining_features - 1,
                         Scale(p.tuning_step, n_remaining_features)))
         ELSE Min(n_remaining_features - 1, tuning_step)
    ELSE IF IsFraction(p.step) /\ p.reducing_step
         THEN Max(1, Min(n_remaining_features - 1,
                         Scale(p.step, n_remaining_features)))
         ELSE Min(n_remaining_features - 1, step)

\* the reducing fraction rounded up instead of truncated
next_step_round_up(p, tsa, tuning_step, step, n_remaining_features) ==
    IF p.tune_step_at # None /\ n_remaining_features <= tsa
    THEN IF IsFraction(p.tuning_step) /\ p.reducing_step
         THEN Max(1, Min(n_remaining_features - 1,
                         Scale(p.tuning_step, n_remaining_features)))
         ELSE Min(n_remaining_features - 1, tuning_step)
    ELSE LET cap == IF p.tune_step_at # None
                    THEN n_remaining_features - tsa
                    ELSE n_remaining_features - 1
         IN IF IsFraction(p.step) /\ p.reducing_step
            THEN Max(1, Min(cap, (p.step.num * n_remaining_features
                                    + p.step.den - 1) \div p.step.den))
            ELSE Min(cap, step)

\* lines 369-388: the elimination size of one loop iteration
next_step(p, tsa, tuning_step, step, n_remaining_features) ==
    IF p.tune_step_at # None
    THEN IF n_remaining_features > tsa
         THEN IF IsFraction(p.step) /\ p.reducing_step
              THEN Max(1, Min(n_remaining_features - tsa,
                              Scale(p.step, n_remaining_features)))
              ELSE Min(n_remaining_features - tsa, step)
         ELSE IF IsFraction(p.tuning_step) /\ p.reducing_step
              THEN Max(1, Min(n_remaining_features - 1,
                              Scale(p.tuning_step, n_remaining_features)))
              ELSE Min(n_remaining_features - 1, tuning_step)
    ELSE IF IsFraction(p.step) /\ p.reducing_step
         THEN Max(1, Min(n_remaining_features - 1,
                         Scale(p.step, n_remaining_features)))
         ELSE Min(n_remaining_features - 1, step)

\* lines 368-391, the whole loop
RECURSIVE steps_loop(_, _, _, _, _, _, _)
steps_loop(p, tsa, tuning_step, step, n_remaining_features, steps, counts) ==
    IF n_remaining_features > 1
    THEN LET s == next_step(p, tsa, tuning_step, step, n_remaining_features)
         IN steps_loop(p, tsa, tuning_step, s, n_remaining_features - s,
                       Append(steps, s),
                       Append(counts, n_remaining_features - s))
    ELSE [err |-> FALSE, steps |-> steps, n_remaining_feature_steps |-> counts]

StepsError == [err |-> TRUE, steps |-> <<>>, n_remaining_feature_steps |-> <<>>]

\* lines 340-395
get_steps(p, n_features, n_features_to_select) ==
    LET step == step_local(p, n_features)
        tsa == IF p.tune_step_at = None THEN 0
               ELSE tune_step_at_local(p, n_features)
        tuning_step == IF p.tune_step_at = None THEN 0
                       ELSE tuning_step_local(p, tsa)
    IN IF step = Raise THEN StepsError
       ELSE IF p.tune_step_at # None
               /\ ~tune_step_at_valid(tsa, n_features, n_features_to_select)
            THEN StepsError
       ELSE IF tuning_step = Raise THEN StepsError
       ELSE steps_loop(p, tsa, tuning_step, step, n_features, <<>>,
                       <<n_features>>)

----------------------------------------------------------------------------
(* SpecSched: _get_steps called on its own, one loop iteration per step *)

StepValues == {Num(k) : k \in 0..MaxStep} \cup {Quarter(k) : k \in 1..3}
TuneValues == {None} \cup {Num(k) : k \in 1..MaxSchedFeatures}
              \cup {Quarter(1), Quarter(2)}

Params(step, tune_step_at, tuning_step, reducing_step, target, memory, col) ==
    [step |-> step, tune_step_at |-> tune_step_at,
     tuning_step |-> tuning_step, reducing_step |-> reducing_step,
     n_features_to_select |-> target, memory |-> memory,
     penalty_factor_meta_col |-> col]

\* the scenarios of the specification's section 8, as scheduler inputs
SchedScenarios ==
    { <<Params(Num(1), None, Num(1), FALSE, 5, FALSE, FALSE), 10>>,
      <<Params(Quarter(2), None, Num(1), FALSE, 1, FALSE, FALSE), 20>>,
      <<Params(Quarter(2), None, Num(1), TRUE, 1, FALSE, FALSE), 20>>,
      <<Params(Num(3), Num(5), Num(1), FALSE, 1, FALSE, FALSE), 20>> }

SchedInputs ==
    { <<Params(s, t, u, r, k, FALSE, FALSE), n>> :
        s \in StepValues, t \in TuneValues, u \in StepValues,
        r \in BOOLEAN, k \in 1..MaxTarget, n \in 0..MaxSchedFeatures }
    \cup SchedScenarios

NoSched == [pc |-> "idle", n_features |-> 0, n_features_to_select |-> 0,
            step |-> 0, tune_step_at |-> 0, tuning_step |-> 0,
            n_remaining_features |-> 0, steps |-> <<>>,
            n_remaining_feature_steps |-> <<>>]

\* fit's arguments: X.shape[1]; whether feature_meta is passed, has the
\* penalty column, its row count, and the features whose penalty factor is 0
NoData == [n_columns |-> 0, feature_meta |-> FALSE, meta_has_col |-> FALSE,
           meta_rows |-> 0, penalty_zero |-> {}]
\* the locals of ExtendedRFE.fit; supports[r + 1] is the mask of round r, as
\* the set of features that are True
NoFrame == [pc |-> "idle", keep_features |-> {}, n_features |-> 0,
            n_features_to_select |-> 0, steps |-> <<>>, supports |-> <<>>,
            rankings |-> <<>>, remaining_features |-> {}, fits |-> 0]
\* the fitted attributes; `has` is hasattr(self, 'support_'); estimator_ is
\* represented by the feature subset it was fit on
NoFitted == [has |-> FALSE, support_ |-> {}, ranking_ |-> <<>>,
             n_features_ |-> 0, estimator_ |-> {},
             n_remaining_feature_steps_ |-> <<>>]
\* observation: whether fit was called before, the _rfe_fit executions so
\* far and at the time of the second call, the object as the first call left it
NoLog == [again |-> FALSE, rfe_fit_calls |-> 0, calls_before |-> 0,
          before |-> NoFitted, self_before |-> <<>>]
NoCV == [pc |-> "idle", n_folds |-> 0]

SchedInit ==
    /\ \E i \in SchedInputs :
         /\ self = i[1]
         /\ sch = [NoSched EXCEPT !.pc = "start", !.n_features = i[2],
                      !.n_features_to_select = i[1].n_features_to_select]
    /\ data = NoData /\ frame = NoFrame /\ fitted = NoFitted
    /\ store = {} /\ oracle = {} /\ log = NoLog /\ cv = NoCV

NotSched == UNCHANGED <<self, data, frame, store, oracle, log, cv>>

\* lines 342-347: step <= 0 raises
SchedStepError ==
    /\ sch.pc = "start"
    /\ step_local(self, sch.n_features) = Raise
    /\ sch' = [sch EXCEPT !.pc = "error"]
    /\ UNCHANGED fitted /\ NotSched

\* lines 349-357: tune_step_at out of range raises
SchedTuneAtError ==
    /\ sch.pc = "start"
    /\ step_local(self, sch.n_features) # Raise
    /\ self.tune_step_at # None
    /\ ~tune_step_at_valid(tune_step_at_local(self, sch.n_features),
                           sch.n_features, sch.n_features_to_select)
    /\ sch' = [sch EXCEPT !.pc = "error"]
    /\ UNCHANGED fitted /\ NotSched

\* lines 358-363: tuning_step <= 0 raises, inside `if tune_step_at is not None`
SchedTuningError ==
    /\ sch.pc = "start"
    /\ step_local(self, sch.n_features) # Raise
    /\ self.tune_step_at # None
    /\ LET tsa == tune_step_at_local(self, sch.n_features)
       IN /\ tune_step_at_valid(tsa, sch.n_features,
                                sch.n_features_to_select)
          /\ tuning_step_local(self, tsa) = Raise
    /\ sch' = [sch EXCEPT !.pc = "error"]
    /\ UNCHANGED fitted /\ NotSched

\* lines 342-367: the locals are set and the loop is entered
SchedEnter ==
    /\ sch.pc = "start"
    /\ step_local(self, sch.n_features) # Raise
    /\ LET tsa == IF self.tune_step_at = None THEN 0
                  ELSE tune_step_at_local(self, sch.n_features)
           tuning == IF self.tune_step_at = None THEN 0
                     ELSE tuning_step_local(self, tsa)
       IN /\ self.tune_step_at # None =>
                /\ tune_step_at_valid(tsa, sch.n_features,
                                      sch.n_features_to_select)
                /\ tuning # Raise
          /\ sch' = [sch EXCEPT !.pc = "loop",
                        !.step = step_local(self, sch.n_features),
                        !.tune_step_at = tsa,
                        !.tuning_step = tuning,
                        !.n_remaining_features = sch.n_features,
                        !.steps = <<>>,
                        !.n_remaining_feature_steps = <<sch.n_features>>]
    /\ UNCHANGED fitted /\ NotSched

\* lines 368-391: one iteration of the while loop
SchedIter ==
    /\ sch.pc = "loop"
    /\ sch.n_remaining_features > 1
    /\ LET s == next_step(self, sch.tune_step_at, sch.tuning_step, sch.step,
                          sch.n_remaining_features)
       IN sch' = [sch EXCEPT
                    !.step = s,
                    !.n_remaining_features = sch.n_remaining_features - s,
                    !.n_remaining_feature_steps =
                        Append(@, sch.n_remaining_features - s),
                    !.steps = Append(@, s)]
    /\ UNCHANGED fitted /\ NotSched

\* lines 368, 393-395: the loop ends, the counts are stored on the object
SchedReturn ==
    /\ sch.pc = "loop"
    /\ ~(sch.n_remaining_features > 1)
    /\ sch' = [sch EXCEPT !.pc = "done"]
    /\ fitted' = [fitted EXCEPT !.n_remaining_feature_steps_ =
                                   sch.n_remaining_feature_steps]
    /\ NotSched

SchedNext ==
    \/ SchedStepError
    \/ SchedTuneAtError
    \/ SchedTuningError
    \/ SchedEnter
    \/ SchedIter
    \/ SchedReturn

SpecSched == SchedInit /\ [][SchedNext]_vars

\* the interpreter keeps executing _get_steps: a step that can be taken is
\* taken
SpecSchedFair == SpecSched /\ WF_vars(SchedNext)

----------------------------------------------------------------------------
(* _rfe_fit and ExtendedRFE.fit *)

\* largest X.shape[1] given to fit
MaxFeatures == 4

Features(n) == 1..n

\* lines 269-276: the features kept whatever their importance
keep_features_of(p, d) ==
    IF p.penalty_factor_meta_col THEN d.penalty_zero ELSE {}

\* lines 271, 276
n_features_of(p, d) == d.n_columns - Cardinality(keep_features_of(p, d))

\* lines 278-281
n_features_to_select_of(p, n_features) ==
    IF p.n_features_to_select = NoneInt THEN n_features \div 2
    ELSE p.n_features_to_select

\* _check_params without the test of n_features_to_select
check_params_no_target(p, d) ==
    /\ p.penalty_factor_meta_col
    /\ \/ ~d.feature_meta
       \/ ~d.meta_has_col
       \/ d.n_columns # d.meta_rows

\* lines 397-411: TRUE when _check_params raises
check_params_raises(p, d) ==
    \/ p.n_features_to_select # NoneInt /\ p.n_features_to_select < 1
    \/ /\ p.penalty_factor_meta_col
       /\ \/ ~d.feature_meta
          \/ ~d.meta_has_col
          \/ d.n_columns # d.meta_rows

\* lines 290-291
n_remaining(support, keep_features) ==
    Cardinality(support) - Cardinality(keep_features)

\* every fitted column is ranked, the kept features among them
ranked_features_all(features, remaining_features) == features

\* lines 63-68 and 309-315: the features whose coefficients are ranked are
\* those at coef_idxs, the positions of remaining_features in features
ranked_features(features, remaining_features) ==
    features \cap remaining_features

\* a single feature is split off whatever the step
eliminate_count_one(size, step) == Min(1, size)

\* lines 79-80 and 318-319: np.split(a, [step])[0] has a[:step], with Python's
\* slice semantics for a step beyond the size or below 0
eliminate_count(size, step) ==
    IF step >= 0 THEN Min(step, size) ELSE Max(0, size + step)

\* the orders (least important first) an argsort may give to the first k of
\* the candidates
Orders(candidates, k) ==
    { o \in [1..k -> candidates] :
        \A i, j \in 1..k : i # j => o[i] # o[j] }

IsPrefix(a, b) == Len(a) <= Len(b) /\ \A i \in 1..Len(a) : a[i] = b[i]

Range(o) == { o[i] : i \in 1..Len(o) }

\* lines 50-51 and 303-304: clone(estimator).fit(X[:, features], y).  The
\* estimator is deterministic: fit on the same columns it reports the same
\* importances, so the same order.  An order is drawn when a subset is fit for
\* the first time and is remembered in `oracle`.
Answers(features, candidates, k) ==
    { o \in Orders(candidates, k) :
        \A e \in oracle : e.features = features =>
            IsPrefix(o, e.order) \/ IsPrefix(e.order, o) }

Learn(features, o) ==
    IF \E e \in oracle : e.features = features /\ Len(e.order) >= Len(o)
    THEN oracle
    ELSE { e \in oracle : e.features # features }
         \cup { [features |-> features, order |-> o] }

\* an estimator taken to expose its coefficients on every subset
exposes_coefs_always(p, features) == TRUE

\* lines 54-60 and 305-308: whether the clone fitted on these columns has
\* coef_ or feature_importances_.  The estimator is given by the fewest
\* columns on which a fitted clone exposes one of them (0: on any subset).
exposes_coefs(p, features) == Cardinality(features) >= p.estimator

\* the row copied from round 0 instead of from the round before
next_support_from_first(supports, step_num, eliminate_features) ==
    supports[1] \ eliminate_features

\* lines 82, 84: supports[step_num] = supports[step_num - 1], then the
\* eliminated features are set to False (row r of the array is supports[r + 1])
next_support(supports, step_num, eliminate_features) ==
    supports[step_num] \ eliminate_features

\* only the features eliminated in this round are incremented
bump_ranking_new_only(ranking, support, n) ==
    [i \in Features(n) |->
        IF i \notin support /\ ranking[i] = 1 THEN 2 ELSE ranking[i]]

\* only the features eliminated in earlier rounds are incremented
bump_ranking_old_only(ranking, support, n) ==
    [i \in Features(n) |-> IF ranking[i] > 1 THEN ranking[i] + 1 ELSE ranking[i]]

\* lines 83, 85 and 322: ranking[np.logical_not(support)] += 1
bump_ranking(ranking, support, n) ==
    [i \in Features(n) |-> IF i \in support THEN ranking[i] ELSE ranking[i] + 1]

\* lines 285-287: the key joblib hashes: every argument but verbose.  The
\* estimator, X, y and fit_params do not change within a behaviour.
cache_key(d, steps, keep_features) ==
    [n_columns |-> d.n_columns, steps |-> steps,
     keep_features |-> keep_features]

\* a memory that never finds a call
cache_hit_never(p, key) == FALSE

cache_hit(p, key) == p.memory /\ \E e \in store : e.key = key

\* lines 289-292: the first round whose retained eliminable count is
\* <= n_features_to_select (0-based); the empty set when there is none
landing_rounds(supports, keep_features, n_features_to_select) ==
    { r \in 0..(Len(supports) - 1) :
        n_remaining(supports[r + 1], keep_features) <= n_features_to_select }

landing_round(supports, keep_features, n_features_to_select) ==
    LET L == landing_rounds(supports, keep_features, n_features_to_select)
    IN CHOOSE r \in L : \A q \in L : r <= q

\* the landing round itself is cut down
previous_round_same(rfe_idx, n_rounds) == rfe_idx

\* lines 298-299: supports[rfe_idx - 1], where index -1 is the last row
previous_round(rfe_idx, n_rounds) ==
    IF rfe_idx - 1 < 0 THEN n_rounds + (rfe_idx - 1) ELSE rfe_idx - 1

FitStepValues == {Num(0), Num(1), Num(2), Quarter(2)}
FitTuneValues == {None} \cup {Num(k) : k \in 2..(MaxFeatures - 1)}
FitTuningValues == {Num(1), Num(2)}
FitTargets == {NoneInt} \cup 0..MaxTarget
\* line 226: the wrapped estimator, see exposes_coefs
FitEstimators == {0, 3}

FitData ==
    { [n_columns |-> n, feature_meta |-> FALSE, meta_has_col |-> FALSE,
       meta_rows |-> 0, penalty_zero |-> {}] : n \in 2..MaxFeatures }
    \cup
    { [n_columns |-> n, feature_meta |-> TRUE, meta_has_col |-> FALSE,
       meta_rows |-> n, penalty_zero |-> {}] : n \in 2..MaxFeatures }
    \cup
    { [n_columns |-> n, feature_meta |-> TRUE, meta_has_col |-> TRUE,
       meta_rows |-> n + 1, penalty_zero |-> {}] : n \in 2..MaxFeatures }
    \cup
    UNION { { [n_columns |-> n, feature_meta |-> TRUE, meta_has_col |-> TRUE,
               meta_rows |-> n, penalty_zero |-> K] : K \in SUBSET Features(n) }
            : n \in 2..MaxFeatures }

FitInit ==
    /\ self \in { Params(s, t, u, r, k, m, c) @@ [estimator |-> e] :
                    s \in FitStepValues, t \in FitTuneValues,
                    u \in FitTuningValues, r \in BOOLEAN,
                    k \in FitTargets, m \in BOOLEAN, c \in BOOLEAN,
                    e \in FitEstimators }
    /\ data \in FitData
    \* a parameter or metadata that is not read is passed in one shape only
    /\ self.reducing_step => IsFraction(self.step)
    /\ self.tune_step_at = None => self.tuning_step = Num(1)
    /\ ~self.penalty_factor_meta_col => ~data.feature_meta
    \* an estimator that lacks the attributes on small subsets is run on the
    \* plain schedules
    /\ self.estimator # 0 =>
          self.tune_step_at = None /\ ~self.reducing_step
    /\ frame = [NoFrame EXCEPT !.pc = "call"]
    /\ fitted = NoFitted
    /\ store = {} /\ oracle = {}
    /\ log = NoLog
    /\ sch = NoSched /\ cv = NoCV

NotFit == UNCHANGED <<self, data, sch, cv>>

\* line 266: _check_params raises
FitCheckParamsError ==
    /\ frame.pc = "call"
    /\ check_params_raises(self, data)
    /\ frame' = [frame EXCEPT !.pc = "error"]
    /\ UNCHANGED <<fitted, store, oracle, log>> /\ NotFit

\* line 283: _get_steps raises
FitGetStepsError ==
    /\ frame.pc = "call"
    /\ ~check_params_raises(self, data)
    /\ LET n == n_features_of(self, data)
       IN get_steps(self, n, n_features_to_select_of(self, n)).err
    /\ frame' = [frame EXCEPT !.pc = "error"]
    /\ UNCHANGED <<fitted, store, oracle, log>> /\ NotFit

\* lines 263-287, the memory has the call: the history comes from the store
FitCacheHit ==
    /\ frame.pc = "call"
    /\ ~check_params_raises(self, data)
    /\ LET keep == keep_features_of(self, data)
           n == n_features_of(self, data)
           target == n_features_to_select_of(self, n)
           got == get_steps(self, n, target)
           key == cache_key(data, got.steps, keep)
       IN /\ ~got.err
          /\ cache_hit(self, key)
          /\ \E e \in store :
               /\ e.key = key
               /\ frame' = [frame EXCEPT !.pc = "select",
                              !.keep_features = keep, !.n_features = n,
                              !.n_features_to_select = target,
                              !.steps = got.steps,
                              !.supports = e.supports,
                              !.rankings = e.rankings,
                              !.remaining_features = {},
                              !.fits = 0]
          /\ fitted' = [fitted EXCEPT !.n_remaining_feature_steps_ =
                                         got.n_remaining_feature_steps]
    /\ UNCHANGED <<store, oracle, log>> /\ NotFit

\* lines 263-287 and 34-42, the memory does not have the call (or there is no
\* memory): _rfe_fit is entered, round 0 retains every feature with rank 1
FitCacheMiss ==
    /\ frame.pc = "call"
    /\ ~check_params_raises(self, data)
    /\ LET keep == keep_features_of(self, data)
           n == n_features_of(self, data)
           target == n_features_to_select_of(self, n)
           got == get_steps(self, n, target)
       IN /\ ~got.err
          /\ ~cache_hit(self, cache_key(data, got.steps, keep))
          /\ frame' = [frame EXCEPT !.pc = "rounds",
                         !.keep_features = keep, !.n_features = n,
                         !.n_features_to_select = target,
                         !.steps = got.steps,
                         !.supports = <<Features(data.n_columns)>>,
                         !.rankings =
                             <<[i \in Features(data.n_columns) |-> 1]>>,
                         !.remaining_features =
                             Features(data.n_columns) \ keep,
                         !.fits = 0]
          /\ fitted' = [fitted EXCEPT !.n_remaining_feature_steps_ =
                                         got.n_remaining_feature_steps]
    /\ log' = [log EXCEPT !.rfe_fit_calls = @ + 1]
    /\ UNCHANGED <<store, oracle>> /\ NotFit

\* lines 43-60: the clone fitted in this round has neither coef_ nor
\* feature_importances_; _rfe_fit raises RuntimeError, which fit lets through
RfeFitUnsupported ==
    /\ frame.pc = "rounds"
    /\ Len(frame.supports) <= Len(frame.steps)
    /\ ~exposes_coefs(self, frame.remaining_features \cup frame.keep_features)
    /\ frame' = [frame EXCEPT !.pc = "unsupported"]
    /\ UNCHANGED <<fitted, store, oracle, log>> /\ NotFit

\* lines 43-85: one elimination round of _rfe_fit
RfeFitRound ==
    /\ frame.pc = "rounds"
    /\ Len(frame.supports) <= Len(frame.steps)
    /\ exposes_coefs(self, frame.remaining_features \cup frame.keep_features)
    /\ LET step_num == Len(frame.supports)
           step == frame.steps[step_num]
           features == frame.remaining_features \cup frame.keep_features
           k == eliminate_count(Cardinality(frame.remaining_features), step)
       IN \E o \in Answers(features,
                           ranked_features(features,
                                           frame.remaining_features), k) :
            LET support == next_support(frame.supports, step_num, Range(o))
                ranking == bump_ranking(frame.rankings[step_num], support,
                                        data.n_columns)
            IN /\ frame' = [frame EXCEPT
                              !.remaining_features = @ \ Range(o),
                              !.supports = Append(@, support),
                              !.rankings = Append(@, ranking)]
               /\ oracle' = Learn(features, o)
    /\ UNCHANGED <<fitted, store, log>> /\ NotFit

\* line 87 and lines 285-287: _rfe_fit returns, the memory keeps the history
RfeFitReturn ==
    /\ frame.pc = "rounds"
    /\ Len(frame.supports) = Len(frame.steps) + 1
    /\ frame' = [frame EXCEPT !.pc = "select"]
    /\ store' = IF self.memory
                THEN store \cup
                     { [key |-> cache_key(data, frame.steps,
                                          frame.keep_features),
                        supports |-> frame.supports,
                        rankings |-> frame.rankings] }
                ELSE store
    /\ UNCHANGED <<fitted, oracle, log>> /\ NotFit

HasLanding ==
    landing_rounds(frame.supports, frame.keep_features,
                   frame.n_features_to_select) # {}

LandingRound ==
    landing_round(frame.supports, frame.keep_features,
                  frame.n_features_to_select)

\* lines 289-296, 324-336: the landing round has exactly the target count
FitSelectExact ==
    /\ frame.pc = "select"
    /\ HasLanding
    /\ LET support == frame.supports[LandingRound + 1]
           ranking == frame.rankings[LandingRound + 1]
       IN /\ n_remaining(support, frame.keep_features)
                = frame.n_features_to_select
          /\ fitted' = [fitted EXCEPT !.has = TRUE,
                          !.support_ = support,
                          !.ranking_ = ranking,
                          !.estimator_ = support,
                          !.n_features_ = Cardinality(support)]
          /\ frame' = [frame EXCEPT !.pc = "done",
                         !.remaining_features =
                             support \ frame.keep_features,
                         !.fits = 1]
    /\ UNCHANGED <<store, oracle, log>> /\ NotFit

\* lines 289-292, 297-336: the landing round has fewer than the target
\* count; the round before it is refit and cut down
FitSelectRollback ==
    /\ frame.pc = "select"
    /\ HasLanding
    /\ n_remaining(frame.supports[LandingRound + 1], frame.keep_features)
          < frame.n_features_to_select
    /\ LET prev == previous_round(LandingRound, Len(frame.supports))
           support == frame.supports[prev + 1]
           ranking == frame.rankings[prev + 1]
           features == support
           remaining_features == features \ frame.keep_features
           step == Cardinality(remaining_features)
                     - frame.n_features_to_select
           k == eliminate_count(Cardinality(remaining_features), step)
       IN /\ exposes_coefs(self, features)
          /\ \E o \in Answers(features,
                           ranked_features(features, remaining_features),
                           k) :
            LET support2 == support \ Range(o)
                ranking2 == bump_ranking(ranking, support2, data.n_columns)
            IN /\ fitted' = [fitted EXCEPT !.has = TRUE,
                               !.support_ = support2,
                               !.ranking_ = ranking2,
                               !.estimator_ =
                                   (remaining_features \ Range(o))
                                       \cup frame.keep_features,
                               !.n_features_ = Cardinality(support2)]
               /\ frame' = [frame EXCEPT !.pc = "done",
                              !.remaining_features =
                                  remaining_features \ Range(o),
                              !.supports[prev + 1] = support2,
                              !.rankings[prev + 1] = ranking2,
                              !.fits = 2]
               /\ oracle' = Learn(features, o)
    /\ UNCHANGED <<store, log>> /\ NotFit

\* lines 297-311: the clone refit on the previous round's features has
\* neither attribute; `coefs` is read unbound at line 311
FitRollbackUnsupported ==
    /\ frame.pc = "select"
    /\ HasLanding
    /\ n_remaining(frame.supports[LandingRound + 1], frame.keep_features)
          < frame.n_features_to_select
    /\ ~exposes_coefs(self,
                      frame.supports[previous_round(LandingRound,
                                                    Len(frame.supports)) + 1])
    /\ frame' = [frame EXCEPT !.pc = "error"]
    /\ UNCHANGED <<fitted, store, oracle, log>> /\ NotFit

\* lines 289-292, 336: no round lands; line 336 reads self.support_, which an
\* earlier fit may have left on the object
FitNoLanding ==
    /\ frame.pc = "select"
    /\ ~HasLanding
    /\ IF fitted.has
       THEN /\ fitted' = [fitted EXCEPT
                            !.n_features_ = Cardinality(fitted.support_)]
            /\ frame' = [frame EXCEPT !.pc = "done"]
       ELSE /\ frame' = [frame EXCEPT !.pc = "error"]
            /\ UNCHANGED fitted
    /\ UNCHANGED <<store, oracle, log>> /\ NotFit

\* after a fit that returned, fit is called once more on the same object with
\* the same data: with the parameters as they are, or after
\* set_params(n_features_to_select=0)
FitAgain ==
    /\ frame.pc = "done"
    /\ ~log.again
    /\ \E k \in {self.n_features_to_select, 0} :
         self' = [self EXCEPT !.n_features_to_select = k]
    /\ frame' = [NoFrame EXCEPT !.pc = "call"]
    /\ log' = [log EXCEPT !.again = TRUE,
                 !.calls_before = log.rfe_fit_calls,
                 !.before = fitted,
                 !.self_before = <<self>>]
    /\ UNCHANGED <<data, sch, cv, fitted, store, oracle>>

Next ==
    \/ FitCheckParamsError
    \/ FitGetStepsError
    \/ FitCacheHit
    \/ FitCacheMiss
    \/ RfeFitUnsupported
    \/ RfeFitRound
    \/ RfeFitReturn
    \/ FitSelectExact
    \/ FitSelectRollback
    \/ FitRollbackUnsupported
    \/ FitNoLanding
    \/ FitAgain

Spec == FitInit /\ [][Next]_vars

----------------------------------------------------------------------------
(* _rfe_single_fit and ExtendedRFECV.fit *)

\* largest number of eliminable features given to ExtendedRFECV.fit
MaxCVFeatures == 3
\* largest number of folds the splitter yields
MaxFolds == 2

\* what the scorer may return for one subset on one test partition
ScoreValues == {0, 1}

Reverse(s) == [i \in 1..Len(s) |-> s[Len(s) + 1 - i]]

\* np.argmax: the first position of the maximum (1-based here)
ArgMax(s) ==
    CHOOSE i \in 1..Len(s) :
        /\ \A j \in 1..Len(s) : s[j] <= s[i]
        /\ \A j \in 1..(i - 1) : s[j] < s[i]

\* line 793: np.sum(scores, axis=0) over the folds' score sequences
RECURSIVE sum_scores(_, _)
sum_scores(result, n_folds) ==
    IF n_folds = 1 THEN result[1].scores
    ELSE LET rest == sum_scores(result, n_folds - 1)
         IN [i \in 1..Len(rest) |-> rest[i] + result[n_folds].scores[i]]

\* the argmax taken without reversing the two arrays
best_n_features_unreversed(scores, n_remaining_feature_steps) ==
    n_remaining_feature_steps[ArgMax(scores)]

\* lines 796-799: n_remaining_feature_steps[::-1][np.argmax(scores[::-1])]
best_n_features(scores, n_remaining_feature_steps) ==
    Reverse(n_remaining_feature_steps)[ArgMax(Reverse(scores))]

\* lines 778-782: n_jobs == 1 runs the tasks one after the other in this
\* thread; otherwise joblib runs them on its active backend, worker processes
\* (each task gets a pickled copy of its arguments) or threads (the tasks get
\* the very objects)
Backends == {"sequential", "processes", "threads"}

\* lines 788-790: every task is given the one ExtendedRFE object `rfe`; only
\* a process backend hands each task a copy of it.  Object 0 is `rfe`.
rfe_object_of(backend, fold) == IF backend = "processes" THEN fold ELSE 0

\* a fold's train part taken to have one column fewer per earlier fold
train_columns_fewer(n_features, fold) == n_features - (fold - 1)

\* lines 104-105: _safe_split takes the rows of the fold's train (test)
\* indices; every fold's X_train has all the columns of X
train_columns(n_features, fold) == n_features

\* a failed task left out of the results instead of raising in fit
parallel_outcome_skip_failed(task, n_folds) ==
    IF \A f \in 1..n_folds : task[f] \in {"returned", "raised"}
    THEN "results"
    ELSE "pending"

\* lines 788-791: list(...) or Parallel(...)(...) gives the results of all the
\* tasks, or raises in fit what a task raised
parallel_outcome(task, n_folds) ==
    IF \E f \in 1..n_folds : task[f] = "raised" THEN "raise"
    ELSE IF \A f \in 1..n_folds : task[f] = "returned" THEN "results"
    ELSE "pending"

\* the transition dropped when the chosen count is below it
final_tune_step_at_below(p, n_features, n_features_to_select) ==
    IF p.tune_step_at = None THEN None
    ELSE IF tune_step_at_local(p, n_features) > n_features_to_select
         THEN None
    ELSE Num(tune_step_at_local(p, n_features))

\* lines 801-809: the tune_step_at of the final ExtendedRFE
final_tune_step_at(p, n_features, n_features_to_select) ==
    IF p.tune_step_at = None THEN None
    ELSE IF tune_step_at_local(p, n_features) <= n_features_to_select
         THEN None
    ELSE Num(tune_step_at_local(p, n_features))

\* lines 763-764, 820: feature_meta is a named parameter of fit, so it is
\* never in **fit_params: feature_params is empty and the final rfe.fit is
\* called without feature_meta
final_fit_data(d) == [d EXCEPT !.feature_meta = FALSE]

\* ExtendedRFE.fit, lines 289-336, on the counts of retained eliminable
\* features alone: the count of the first round with at most the target, or
\* of the round before it cut down by its excess over the target
selected_count(counts, target) ==
    LET L == { i \in 1..Len(counts) : counts[i] <= target }
    IN IF L = {} THEN Raise
       ELSE LET r == CHOOSE i \in L : \A q \in L : i <= q
            IN IF counts[r] = target THEN counts[r]
               ELSE LET prev == counts[previous_round(r - 1, Len(counts)) + 1]
                    IN prev - eliminate_count(prev, prev - target)

\* lines 831-833: scores[::-1] / cv.get_n_splits(...)
grid_scores(scores, n_splits) ==
    [i \in 1..Len(scores) |-> [num |-> Reverse(scores)[i], den |-> n_splits]]

\* rfe._fit with the step-scoring hook: one score per entry of the
\* remaining-feature-count sequence, each measured on the fold's test part
fold_scores(n_remaining_feature_steps) ==
    [1..Len(n_remaining_feature_steps) -> ScoreValues]

\* lines 37-38, 43-76 and 329-330: the counts of retained eliminable features
\* at which _rfe_fit calls the step_score hook.  The hook is called once in
\* each round of the loop over steps, on the features the estimator of the
\* round was fit on, before the round eliminates; the call for the features
\* left after the last round is commented out in fit.
scored_counts(steps, n_remaining_feature_steps) ==
    [r \in 1..Len(steps) |-> n_remaining_feature_steps[r]]

NoObject == [scores_ |-> <<>>, n_remaining_feature_steps_ |-> <<>>]
NoResult == [scores |-> <<>>, n_remaining_feature_steps |-> <<>>]
\* the final ExtendedRFE (lines 812-820) and what its fit left on it
NoFinal == [started |-> FALSE, feature_meta |-> FALSE, tune_step_at |-> None,
            n_features_to_select |-> 0, n_features_ |-> 0]
\* the fitted attributes of the ExtendedRFECV object (lines 823-833): `has`
\* is hasattr(self, 'support_'), and support_, n_features_ and ranking_ are
\* written one after the other with nothing that raises in between;
\* estimator_ is "none" (no attribute), "unfitted" (the clone of line 826) or
\* "fitted"
NoAttributes == [has |-> FALSE, n_features_ |-> 0, estimator_ |-> "none",
                 grid_scores_ |-> <<>>,
                 n_remaining_feature_steps_ |-> <<>>]

\* lines 675-690: tune_step_at and min_features_to_select
CVTuneValues == {None, Num(2)}
CVMinFeatures == {1, 2}

\* X and the feature_meta of the call: none, or a table with the penalty
\* column in which no feature or the first feature has penalty factor 0
CVData ==
    { [NoData EXCEPT !.n_columns = n] : n \in 2..MaxCVFeatures }
    \cup
    { [n_columns |-> n, feature_meta |-> TRUE, meta_has_col |-> TRUE,
       meta_rows |-> n, penalty_zero |-> K] :
        n \in 2..MaxCVFeatures, K \in {{}, {1}} }

CVInit ==
    /\ self \in { Params(s, t, Num(1), FALSE, k, FALSE, c) :
                    s \in {Num(1), Num(2)}, t \in CVTuneValues,
                    k \in CVMinFeatures, c \in BOOLEAN }
    /\ data \in CVData
    \* feature metadata is passed when, and only when, the penalty column is
    \* set; such a call is run with the plain schedule of step 1
    /\ self.penalty_factor_meta_col = data.feature_meta
    /\ self.penalty_factor_meta_col =>
          /\ self.step = Num(1) /\ self.tune_step_at = None
          /\ self.n_features_to_select = 1
    /\ \E b \in Backends, k \in 2..MaxFolds :
         \* two tasks that share an object show every interleaving of a read
         \* with another task's write
         /\ b = "threads" => k = 2
         /\ self.penalty_factor_meta_col => b = "sequential"
         /\ cv = [pc |-> "folds", backend |-> b, n_folds |-> k,
                  n_features |-> n_features_of(self, data),
                  task |-> [f \in 1..k |-> "queued"],
                  own |-> [f \in 1..k |-> <<>>],
                  scored |-> [f \in 1..k |-> <<>>],
                  object |-> [o \in 0..k |-> NoObject],
                  result |-> [f \in 1..k |-> NoResult],
                  scores |-> <<>>, n_remaining_feature_steps |-> <<>>,
                  n_features_to_select |-> 0,
                  final |-> NoFinal, attributes |-> NoAttributes]
    /\ sch = NoSched /\ frame = NoFrame /\ fitted = NoFitted
    /\ store = {} /\ oracle = {} /\ log = NoLog

NotCV == UNCHANGED <<self, data, sch, frame, fitted, store, oracle, log>>

\* a task may start: at once on a parallel backend, after the tasks before it
\* have returned when the tasks are run by list() in this thread
MayRun(f) ==
    cv.backend = "sequential" =>
        \A g \in 1..(f - 1) : cv.task[g] = "returned"

\* lines 95-109: the fold task calls rfe._fit on the train part with the
\* hook that scores on the test part; the scores and the count sequence
\* (line 393) are left on the rfe object the task was given
TaskFit(f) ==
    /\ cv.pc = "folds"
    /\ parallel_outcome(cv.task, cv.n_folds) = "pending"
    /\ cv.task[f] = "queued"
    /\ MayRun(f)
    /\ LET got == get_steps(self, train_columns(cv.n_features, f),
                            self.n_features_to_select)
           o == rfe_object_of(cv.backend, f)
       IN /\ ~got.err
          /\ \E sc \in fold_scores(got.n_remaining_feature_steps) :
               cv' = [cv EXCEPT
                        !.task[f] = "fitted",
                        !.own[f] = sc,
                        !.scored[f] =
                            scored_counts(got.steps,
                                          got.n_remaining_feature_steps),
                        !.object[o] =
                            [scores_ |-> sc,
                             n_remaining_feature_steps_ |->
                                 got.n_remaining_feature_steps]]
    /\ NotCV

\* line 110: return rfe.scores_, rfe.n_remaining_feature_steps_
TaskReturn(f) ==
    /\ cv.pc = "folds"
    /\ parallel_outcome(cv.task, cv.n_folds) = "pending"
    /\ cv.task[f] = "fitted"
    /\ LET o == rfe_object_of(cv.backend, f)
       IN cv' = [cv EXCEPT
                   !.task[f] = "returned",
                   !.result[f] =
                       [scores |-> cv.object[o].scores_,
                        n_remaining_feature_steps |->
                            cv.object[o].n_remaining_feature_steps_]]
    /\ NotCV

\* lines 95-109: the fold task raises: _get_steps rejects the parameters, or
\* the estimator or the scorer fails on the fold's partition
TaskRaise(f) ==
    /\ cv.pc = "folds"
    /\ parallel_outcome(cv.task, cv.n_folds) = "pending"
    /\ cv.task[f] = "queued"
    /\ MayRun(f)
    /\ cv' = [cv EXCEPT !.task[f] = "raised"]
    /\ NotCV

\* lines 788-791: what a task raised is raised in fit, out of the call that
\* collects the results; no task is run after that
FitRaise ==
    /\ cv.pc = "folds"
    /\ parallel_outcome(cv.task, cv.n_folds) = "raise"
    /\ cv' = [cv EXCEPT !.pc = "raised"]
    /\ NotCV

\* lines 788-799: every task has returned; the scores are summed over the
\* folds and the feature count is chosen
Aggregate ==
    /\ cv.pc = "folds"
    /\ parallel_outcome(cv.task, cv.n_folds) = "results"
    /\ LET scores == sum_scores(cv.result, cv.n_folds)
           n_remaining_feature_steps == cv.result[1].n_remaining_feature_steps
       IN cv' = [cv EXCEPT
                   !.pc = "selected",
                   !.scores = scores,
                   !.n_remaining_feature_steps = n_remaining_feature_steps,
                   !.n_features_to_select =
                       best_n_features(scores, n_remaining_feature_steps)]
    /\ NotCV

\* lines 801-820: the final ExtendedRFE is built with the chosen count and
\* fit on the whole data; its fit raises or leaves its selection
FinalFit ==
    /\ cv.pc = "selected"
    /\ LET tsa == final_tune_step_at(self, cv.n_features,
                                     cv.n_features_to_select)
           rfe == [self EXCEPT
                     !.n_features_to_select = cv.n_features_to_select,
                     !.tune_step_at = tsa]
           d == final_fit_data(data)
           n == n_features_of(rfe, d)
           target == n_features_to_select_of(rfe, n)
           got == get_steps(rfe, n, target)
           count == IF got.err THEN Raise
                    ELSE selected_count(got.n_remaining_feature_steps, target)
           raises == check_params_raises(rfe, d) \/ count = Raise
       IN cv' = [cv EXCEPT
                   !.pc = IF raises THEN "error" ELSE "final",
                   !.final =
                       [started |-> TRUE, feature_meta |-> d.feature_meta,
                        tune_step_at |-> tsa,
                        n_features_to_select |-> target,
                        n_features_ |->
                            IF raises THEN 0
                            ELSE count
                                 + Cardinality(keep_features_of(rfe, d))]]
    /\ NotCV

\* lines 823-826: the selection of the final ExtendedRFE is copied to the
\* ExtendedRFECV object and estimator_ is set to a fresh clone
SetSelection ==
    /\ cv.pc = "final"
    /\ cv' = [cv EXCEPT
                !.pc = "refit",
                !.attributes.has = TRUE,
                !.attributes.n_features_ = cv.final.n_features_,
                !.attributes.estimator_ = "unfitted"]
    /\ NotCV

\* lines 827-828: the fit of self.estimator_ on the selected columns raises
\* (the estimator fails, memory runs out, the run is interrupted)
RefitRaise ==
    /\ cv.pc = "refit"
    /\ cv' = [cv EXCEPT !.pc = "refit_raised"]
    /\ NotCV

\* lines 827-834: self.estimator_ is fit on the selected columns, then the
\* count sequence and the grid scores are written and fit returns
SetAttributes ==
    /\ cv.pc = "refit"
    /\ cv' = [cv EXCEPT
                !.pc = "done",
                !.attributes.estimator_ = "fitted",
                !.attributes.grid_scores_ =
                    grid_scores(cv.scores, cv.n_folds),
                !.attributes.n_remaining_feature_steps_ =
                    cv.n_remaining_feature_steps]
    /\ NotCV

CVNext ==
    \/ \E f \in 1..cv.n_folds : TaskFit(f)
    \/ \E f \in 1..cv.n_folds : TaskReturn(f)
    \/ \E f \in 1..cv.n_folds : TaskRaise(f)
    \/ FitRaise
    \/ Aggregate
    \/ FinalFit
    \/ SetSelection
    \/ RefitRaise
    \/ SetAttributes

SpecCV == CVInit /\ [][CVNext]_vars

----------------------------------------------------------------------------
(* Claims about the scheduler, checked under SpecSched *)

\* step > 0, 1 <= n_features_to_select < n_features, tune_step_at absent or
\* strictly between n_features_to_select and n_features, tuning_step > 0
ValidSchedInput ==
    /\ ~LE0(self.step)
    /\ ~LE0(self.tuning_step)
    /\ 1 <= sch.n_features_to_select
    /\ sch.n_features_to_select < sch.n_features
    /\ self.tune_step_at # None =>
          tune_step_at_valid(tune_step_at_local(self, sch.n_features),
                             sch.n_features, sch.n_features_to_select)

SchedDone == sch.pc = "done" /\ ValidSchedInput

C7_StepsWithinBounds ==
    (sch.pc \in {"loop", "done"} /\ ValidSchedInput) =>
        \A i \in 1..Len(sch.steps) :
            /\ sch.steps[i] >= 1
            /\ sch.steps[i] <= sch.n_remaining_feature_steps[i] - 1
            /\ sch.n_remaining_feature_steps[i + 1] >= 1

\* a fractional reducing step with a tuning transition ran to the end, and one
\* of its steps took all but one of the remaining features
C7_Witness ==
    /\ SchedDone
    /\ IsFraction(self.step) /\ self.reducing_step
    /\ self.tune_step_at # None
    /\ Len(sch.steps) >= 3
    /\ \E i \in 1..Len(sch.steps) :
          sch.steps[i] = sch.n_remaining_feature_steps[i] - 1

\* C8: with a valid tune_step_at, the recorded remaining-count sequence
\* contains tune_step_at, and no step taken while more than tune_step_at
\* features remain leaves fewer than tune_step_at.
C8_LandsOnTuneStepAt ==
    (ValidSchedInput /\ self.tune_step_at # None) =>
        /\ sch.pc \in {"loop", "done"} =>
              \A i \in 1..Len(sch.steps) :
                  sch.n_remaining_feature_steps[i] > sch.tune_step_at =>
                      sch.n_remaining_feature_steps[i + 1] >= sch.tune_step_at
        /\ sch.pc = "done" =>
              \E i \in 1..Len(sch.n_remaining_feature_steps) :
                  sch.n_remaining_feature_steps[i] = sch.tune_step_at

\* n_features = 20, step = 3, tune_step_at = 5, tuning_step = 1
C8_Witness ==
    /\ SchedDone
    /\ self.step = Num(3) /\ self.tune_step_at = Num(5)
    /\ self.tuning_step = Num(1)
    /\ sch.n_remaining_feature_steps = <<20, 17, 14, 11, 8, 5, 4, 3, 2, 1>>

\* C13 as stated: _get_steps reports a configuration error whenever
\* tuning_step <= 0, whether or not tune_step_at is configured.
C13_TuningStepAlwaysChecked ==
    LE0(self.tuning_step) => sch.pc \in {"start", "error"}

\* C13 amended: _get_steps reports a configuration error whenever
\* tune_step_at is configured and tuning_step <= 0; with no tune_step_at a
\* valid step gives a schedule whatever tuning_step is, which is never read.
C13_TuningStepCheckedWithTuneAt ==
    /\ (self.tune_step_at # None /\ LE0(self.tuning_step)) =>
          sch.pc \in {"start", "error"}
    /\ (self.tune_step_at = None /\ ~LE0(self.step)) => sch.pc # "error"

\* a valid step and a valid tune_step_at, and tuning_step = 0 raised
C13_Witness ==
    /\ sch.pc = "error"
    /\ ~LE0(self.step)
    /\ self.tune_step_at # None
    /\ tune_step_at_valid(tune_step_at_local(self, sch.n_features),
                          sch.n_features, sch.n_features_to_select)
    /\ self.tuning_step = Num(0)

\* C19: with 0 < step < 1, reducing_step False and no tune_step_at, every
\* elimination size is the constant max(1, floor(step * n_features)) of the
\* initial count, lowered only by the remaining-minus-one cap.
C19_ConstantFractionalStep ==
    (IsFraction(self.step) /\ ~self.reducing_step /\ self.tune_step_at = None
       /\ sch.pc \in {"loop", "done"}) =>
        \A i \in 1..Len(sch.steps) :
            sch.steps[i] =
                Min(sch.n_remaining_feature_steps[i] - 1,
                    Max(1, (self.step.num * sch.n_features)
                               \div self.step.den))

\* 20 features, step 0.5: the constant is 10, taken once, then 9 by the cap
C19_Witness ==
    /\ sch.pc = "done"
    /\ sch.n_features = 20
    /\ self.step = Quarter(2) /\ ~self.reducing_step
    /\ self.tune_step_at = None
    /\ sch.steps = <<10, 9>>

\* the shape of the recorded sequences while the loop runs and after it
CountsShape ==
    /\ Len(sch.n_remaining_feature_steps) = Len(sch.steps) + 1
    /\ sch.n_remaining_feature_steps[1] = sch.n_features
    /\ \A i \in 1..Len(sch.steps) :
          /\ sch.n_remaining_feature_steps[i + 1]
                = sch.n_remaining_feature_steps[i] - sch.steps[i]
          /\ sch.n_remaining_feature_steps[i + 1]
                < sch.n_remaining_feature_steps[i]
          /\ sch.n_remaining_feature_steps[i] > 1
    /\ sch.n_remaining_feature_steps[Len(sch.n_remaining_feature_steps)]
          = sch.n_remaining_features
    /\ sch.n_remaining_features >= 1

BeforeTransition(i) ==
    self.tune_step_at = None
        \/ sch.n_remaining_feature_steps[i] > sch.tune_step_at

\* the cap of a round before the transition
CoarseCap(i) ==
    IF self.tune_step_at = None
    THEN sch.n_remaining_feature_steps[i] - 1
    ELSE Min(sch.n_remaining_feature_steps[i] - 1,
             sch.n_remaining_feature_steps[i] - sch.tune_step_at)

\* C23: with 0 < step < 1 and reducing_step, each elimination size taken
\* before any tuning transition is max(1, floor(step * remaining)) of the
\* round's own remaining count, capped at remaining - 1 (and at
\* remaining - tune_step_at), so these sizes never increase.
C23_ReducingStepRecomputed ==
    (ValidSchedInput /\ IsFraction(self.step) /\ self.reducing_step
       /\ sch.pc \in {"loop", "done"}) =>
        \A i \in 1..Len(sch.steps) :
            BeforeTransition(i) =>
                /\ sch.steps[i] =
                      Min(CoarseCap(i),
                          Max(1, (self.step.num
                                    * sch.n_remaining_feature_steps[i])
                                 \div self.step.den))
                /\ i > 1 => sch.steps[i] <= sch.steps[i - 1]

\* 20 features, step 0.5, reducing: 10, 5, 2, 1, 1
C23_Witness ==
    /\ SchedDone
    /\ self.step = Quarter(2) /\ self.reducing_step
    /\ self.tune_step_at = None
    /\ sch.steps = <<10, 5, 2, 1, 1>>

\* the size tuning_step gives for a round that starts with `remaining`
TuningSize(remaining) ==
    IF GE1(self.tuning_step)
    THEN Min(remaining - 1, self.tuning_step.num \div self.tuning_step.den)
    ELSE IF self.reducing_step
    THEN Min(remaining - 1,
             Max(1, (self.tuning_step.num * remaining)
                        \div self.tuning_step.den))
    ELSE Min(remaining - 1,
             Max(1, (self.tuning_step.num * sch.tune_step_at)
                        \div self.tuning_step.den))

\* the size step gives for a round that starts with `remaining`, above the
\* transition
CoarseSize(remaining) ==
    IF GE1(self.step)
    THEN Min(remaining - sch.tune_step_at, self.step.num \div self.step.den)
    ELSE IF self.reducing_step
    THEN Min(remaining - sch.tune_step_at,
             Max(1, (self.step.num * remaining) \div self.step.den))
    ELSE Min(remaining - sch.tune_step_at,
             Max(1, (self.step.num * sch.n_features) \div self.step.den))

\* C24: once the remaining count is <= tune_step_at every elimination size
\* is derived from tuning_step only (itself if >= 1, the fraction of
\* tune_step_at if not reducing, of the remaining count if reducing), capped
\* at remaining - 1; while it is above, the size is derived from step only.
C24_TuningStepAfterTransition ==
    (ValidSchedInput /\ self.tune_step_at # None
       /\ sch.pc \in {"loop", "done"}) =>
        \A i \in 1..Len(sch.steps) :
            LET remaining == sch.n_remaining_feature_steps[i]
            IN IF remaining <= sch.tune_step_at
               THEN sch.steps[i] = TuningSize(remaining)
               ELSE sch.steps[i] = CoarseSize(remaining)

\* step = 1 down to tune_step_at = 6, then the fractional tuning_step 0.5 of
\* tune_step_at, 3, capped at the end
C24_Witness ==
    /\ SchedDone
    /\ self.step = Num(1) /\ self.tune_step_at = Num(6)
    /\ self.tuning_step = Quarter(2) /\ ~self.reducing_step
    /\ sch.n_features = 8
    /\ sch.steps = <<1, 1, 3, 2>>

----------------------------------------------------------------------------
(* Claims about _rfe_fit and ExtendedRFE.fit, checked under Spec *)

FitDone == frame.pc = "done"

\* the history _rfe_fit has built so far or returned: in the rounds and before
\* the selection touches it
HistoryRows ==
    IF frame.pc \in {"rounds", "select"} THEN frame.supports ELSE <<>>

HistoryRankings ==
    IF frame.pc \in {"rounds", "select"} THEN frame.rankings ELSE <<>>

\* C2: after fit with a target t, 1 <= t <= number of eliminable features,
\* support_ retains exactly t eliminable features and n_features_ is t plus
\* the number of kept features, on the exact path and on the rollback path.
C2_ExactlyTargetRetained ==
    (FitDone /\ frame.fits >= 1
       /\ 1 <= frame.n_features_to_select
       /\ frame.n_features_to_select <= frame.n_features) =>
        /\ Cardinality(fitted.support_ \ frame.keep_features)
              = frame.n_features_to_select
        /\ fitted.n_features_
              = frame.n_features_to_select + Cardinality(frame.keep_features)

\* the schedule stepped over the target and the rollback path ran, with
\* kept features present
C2_Witness ==
    /\ FitDone /\ frame.fits = 2
    /\ frame.keep_features # {}
    /\ 1 <= frame.n_features_to_select
    /\ frame.n_features_to_select <= frame.n_features
    /\ Cardinality(fitted.support_ \ frame.keep_features) = 2

\* C4: in the history of _rfe_fit, round 0 retains every feature and every
\* later round retains a subset of what the round before it retains.
C4_SupportNonIncreasing ==
    /\ Len(HistoryRows) >= 1 => HistoryRows[1] = Features(data.n_columns)
    /\ \A r \in 2..Len(HistoryRows) : HistoryRows[r] \subseteq HistoryRows[r - 1]
    /\ \A e \in store :
          /\ e.supports[1] = Features(e.key.n_columns)
          /\ \A r \in 2..Len(e.supports) :
                e.supports[r] \subseteq e.supports[r - 1]

\* a history of three rounds after round 0, each dropping a feature
C4_Witness ==
    /\ frame.pc = "select"
    /\ Len(frame.supports) = 4
    /\ \A r \in 2..4 : frame.supports[r] # frame.supports[r - 1]

\* C5: in every round of the history and in the final ranking_ / support_,
\* on the exact and on the rollback path, ranking[i] = 1 exactly when
\* support[i] is True.
C5_RankOneIffSupported ==
    /\ \A r \in 1..Len(HistoryRows) :
          \A i \in Features(data.n_columns) :
              HistoryRankings[r][i] = 1 <=> i \in HistoryRows[r]
    /\ fitted.has =>
          \A i \in Features(data.n_columns) :
              fitted.ranking_[i] = 1 <=> i \in fitted.support_

\* the rollback path wrote a ranking_ with ranks 1, 2 and 3
C5_Witness ==
    /\ FitDone /\ frame.fits = 2
    /\ \E i, j \in Features(data.n_columns) :
          fitted.ranking_[i] = 2 /\ fitted.ranking_[j] = 3

\* C6: the kept features (penalty factor 0) are True in every support mask
\* of the history and in the final support_, whatever the estimator reports,
\* and no kept feature is among the features ranked for removal.
C6_KeptAlwaysSupported ==
    /\ \A r \in 1..Len(HistoryRows) :
          frame.keep_features \subseteq HistoryRows[r]
    /\ \A e \in store :
          \A r \in 1..Len(e.supports) :
              e.key.keep_features \subseteq e.supports[r]
    /\ (FitDone /\ frame.fits >= 1) =>
          frame.keep_features \subseteq fitted.support_
    /\ \A e \in oracle :
          Range(e.order) \cap keep_features_of(self, data) = {}

\* two kept features survived the elimination loop and the rollback path
C6_Witness ==
    /\ FitDone /\ frame.fits = 2
    /\ Cardinality(frame.keep_features) = 2
    /\ frame.keep_features \subseteq fitted.support_
    /\ fitted.support_ # Features(data.n_columns)

\* the second call of fit has the parameters of the first and a memory
SameFitAgain ==
    log.again /\ self.memory /\ log.self_before = <<self>>

\* C9: fit called again with the same parameters and data against the store
\* the first call filled gives the same support_, ranking_, n_features_ (and
\* final estimator), and _rfe_fit is not executed again.
C9_RefitServedFromStore ==
    SameFitAgain =>
        /\ log.rfe_fit_calls = log.calls_before
        /\ frame.pc # "rounds"
        /\ FitDone =>
              /\ fitted.support_ = log.before.support_
              /\ fitted.ranking_ = log.before.ranking_
              /\ fitted.n_features_ = log.before.n_features_
              /\ fitted.estimator_ = log.before.estimator_

\* the second call finished on the rollback path with the history of the
\* first call's single _rfe_fit execution
C9_Witness ==
    /\ SameFitAgain /\ FitDone
    /\ frame.fits = 2
    /\ log.rfe_fit_calls = 1
    /\ Len(frame.supports) >= 3

\* the object and the _rfe_fit executions as they were when the running call
\* of fit began
FittedAtCall == IF log.again THEN log.before ELSE NoFitted

CallsAtCall == IF log.again THEN log.calls_before ELSE 0

\* the configuration errors: step <= 0, tune_step_at not strictly between
\* n_features_to_select and n_features, n_features_to_select < 1, penalty
\* column set with the metadata absent, lacking it, or of another row count
ConfigError ==
    LET n == n_features_of(self, data)
    IN \/ LE0(self.step)
       \/ /\ self.tune_step_at # None
          /\ ~tune_step_at_valid(tune_step_at_local(self, n), n,
                                 n_features_to_select_of(self, n))
       \/ self.n_features_to_select # NoneInt /\ self.n_features_to_select < 1
       \/ /\ self.penalty_factor_meta_col
          /\ \/ ~data.feature_meta
             \/ ~data.meta_has_col
             \/ data.n_columns # data.meta_rows

\* C12: a call of fit with a configuration error raises before the wrapped
\* estimator is cloned or fit even once (no elimination round, no refit, no
\* execution of _rfe_fit) and before any fitted attribute is written.
C12_ConfigErrorBeforeAnyFit ==
    ConfigError =>
        /\ frame.pc \in {"call", "error"}
        /\ frame.fits = 0 /\ frame.supports = <<>>
        /\ log.rfe_fit_calls = CallsAtCall
        /\ fitted = FittedAtCall
        /\ log.again \/ oracle = {}

\* the parameter check passed and the scheduler raised on a tune_step_at out
\* of range; nothing is on the object
C12_Witness ==
    /\ frame.pc = "error"
    /\ ~check_params_raises(self, data)
    /\ ~LE0(self.step)
    /\ self.tune_step_at # None
    /\ ConfigError
    /\ fitted = NoFitted

\* the four fitted attributes fit itself assigns (lines 331-336)
Selection(f) ==
    <<f.has, f.support_, f.ranking_, f.n_features_, f.estimator_>>

\* the elimination round in which the clone exposed neither attribute
Unsupported == frame.pc = "unsupported"

StepOneDone ==
    /\ FitDone /\ frame.fits >= 1
    /\ self.step = Num(1) /\ self.tune_step_at = None
    /\ 1 <= frame.n_features_to_select
    /\ frame.n_features_to_select <= frame.n_features

\* the round (row of the history) in which feature i was eliminated
EliminatedIn(i) ==
    CHOOSE r \in 1..Len(frame.supports) :
        /\ i \notin frame.supports[r]
        /\ \A q \in 1..(r - 1) : i \in frame.supports[q]

Eliminated == Features(data.n_columns) \ fitted.support_

HistoryRounds == 1..(Len(HistoryRows) - 1)

\* C26: in the history of _rfe_fit every round r >= 1 removes exactly
\* steps[r - 1] retained eliminable features, the least important ones of the
\* fit on the features of the round before and never a kept feature; its
\* ranking row is the previous row plus 1 on every feature not retained in
\* round r and unchanged on the retained ones; so a feature removed in round r
\* has rank R - r + 2 in every round R >= r.
C26_RoundRemovesScheduledStep ==
    \A r \in HistoryRounds :
        LET before == HistoryRows[r]
            after == HistoryRows[r + 1]
            removed == before \ after
        IN /\ after \subseteq before
           /\ removed \cap frame.keep_features = {}
           /\ Cardinality(removed) = frame.steps[r]
           /\ \E e \in oracle :
                 /\ e.features = before
                 /\ Len(e.order) >= frame.steps[r]
                 /\ removed = { e.order[i] : i \in 1..frame.steps[r] }
           /\ \A i \in Features(data.n_columns) :
                 HistoryRankings[r + 1][i] =
                     IF i \in after THEN HistoryRankings[r][i]
                     ELSE HistoryRankings[r][i] + 1
           /\ \A i \in removed : \A R \in HistoryRounds :
                 R >= r => HistoryRankings[R + 1][i] = R - r + 2

\* a returned history of two rounds after round 0, the first of which
\* removed two features, now of rank 3
C26_Witness ==
    /\ frame.pc = "select"
    /\ frame.steps = <<2, 1>>
    /\ Len(HistoryRows) = 3
    /\ Cardinality(HistoryRows[1] \ HistoryRows[2]) = 2
    /\ \A i \in HistoryRows[1] \ HistoryRows[2] : HistoryRankings[3][i] = 3

\* the selection of lines 289-336 takes place in this step
Selects == frame.pc = "select" /\ HasLanding /\ frame'.pc = "done"

LandingCount ==
    n_remaining(frame.supports[LandingRound + 1], frame.keep_features)

\* the selection made in this step is the row `prev` of the history cut down
\* to the target: the least important eliminable features of the fit on that
\* row are removed, and the ranking is the row's ranking plus 1 on every
\* feature that is not retained
CutDownFrom(prev) ==
    LET support == frame.supports[prev]
        removed == support \ fitted'.support_
        k == n_remaining(support, frame.keep_features)
               - frame.n_features_to_select
    IN /\ fitted'.support_ \subseteq support
       /\ removed \cap frame.keep_features = {}
       /\ Cardinality(removed) = k
       /\ \E e \in oracle' :
             /\ e.features = support
             /\ Len(e.order) >= k
             /\ removed = { e.order[i] : i \in 1..k }
       /\ fitted'.ranking_ =
             bump_ranking(frame.rankings[prev], fitted'.support_,
                          data.n_columns)

\* C25: the landing round is the first round of the history whose retained
\* eliminable count is <= the target.  When the count equals the target the
\* round's support and ranking are adopted unchanged and one estimator fit is
\* made outside _rfe_fit.  When it is below the target two fits are made and
\* the selection is the previous round's support with exactly (previous count
\* - target) least important eliminable features removed, the ranking being
\* the previous round's ranking plus 1 on every feature not retained.
C25_LandingRoundSelection ==
    [][Selects =>
         /\ LandingCount = frame.n_features_to_select =>
               /\ fitted'.support_ = frame.supports[LandingRound + 1]
               /\ fitted'.ranking_ = frame.rankings[LandingRound + 1]
               /\ frame'.fits = 1
         /\ LandingCount < frame.n_features_to_select =>
               /\ frame'.fits = 2
               /\ LandingRound >= 1
               /\ CutDownFrom(LandingRound)]_vars

\* C29: every call of fit that passes _check_params and _get_steps and whose
\* estimator fits succeed finds a landing round, so that support_, ranking_
\* and estimator_ are assigned before n_features_ is computed; the default
\* target with one or no eliminable feature is included.
C29_LandingRoundExists ==
    /\ frame.pc = "select" => HasLanding
    /\ FitDone => frame.fits >= 1

\* C30: the rollback is entered only at a landing round of index >= 1, so
\* the round rolled back to is an earlier round of the history, and the extra
\* elimination removes at least one feature; a target above the number of
\* eliminable features is included.
C30_RollbackHasPreviousRound ==
    (frame.pc = "select" /\ HasLanding
       /\ LandingCount < frame.n_features_to_select) =>
        /\ LandingRound >= 1
        /\ n_remaining(frame.supports[LandingRound], frame.keep_features)
              - frame.n_features_to_select >= 1

----------------------------------------------------------------------------
(* Claims about ExtendedRFECV.fit, checked under SpecCV *)

CVSelected == cv.pc = "selected"

\* the counts whose summed score is the maximum summed score
BestCounts ==
    { cv.n_remaining_feature_steps[i] : i \in
        { i \in 1..Len(cv.scores) :
            \A j \in 1..Len(cv.scores) : cv.scores[j] <= cv.scores[i] } }

\* C3: the feature count chosen from the fold-summed score curve is the
\* smallest count among those whose summed score is the maximum.
C3_FewestFeaturesAmongBest ==
    CVSelected =>
        /\ cv.n_features_to_select \in BestCounts
        /\ \A c \in BestCounts : cv.n_features_to_select <= c

\* two different counts tie for the maximum summed score over two folds
\* that scored differently, and the smaller count was chosen
C3_Witness ==
    /\ CVSelected
    /\ Cardinality(BestCounts) = 2
    /\ cv.result[1].scores # cv.result[2].scores
    /\ \E c \in BestCounts : cv.n_features_to_select < c

\* C10: under any interleaving of the fold tasks, what a fold task returns
\* is what that task's own fit computed on its own train/test partition.
C10_FoldReturnsOwnScores ==
    \A f \in 1..cv.n_folds :
        cv.task[f] = "returned" => cv.result[f].scores = cv.own[f]

\* ExtendedRFECV.fit has gone past the fold tasks
PastFolds ==
    cv.pc \in {"selected", "final", "refit", "refit_raised", "error", "done"}

\* C11: if a fold task raises, fit raises: nothing is aggregated or chosen
\* from the folds that succeeded, the final elimination is never started,
\* and no fitted attribute of the ExtendedRFECV object is written.
C11_FoldRaiseAbortsFit ==
    /\ (\E f \in 1..cv.n_folds : cv.task[f] = "raised") =>
          /\ cv.pc \in {"folds", "raised"}
          /\ cv.pc = "folds" => ENABLED FitRaise
          /\ cv.scores = <<>> /\ cv.n_remaining_feature_steps = <<>>
          /\ cv.n_features_to_select = 0
          /\ ~cv.final.started
          /\ cv.attributes = NoAttributes
    /\ PastFolds => \A f \in 1..cv.n_folds : cv.task[f] = "returned"

\* fit raised after one fold had returned its scores and another had raised
C11_Witness ==
    /\ cv.pc = "raised"
    /\ \E f, g \in 1..cv.n_folds :
          /\ cv.task[f] = "returned" /\ cv.result[f].scores # <<>>
          /\ cv.task[g] = "raised"
    /\ cv.attributes = NoAttributes

\* the final ExtendedRFE has been built for a configured tune_step_at
FinalWithTuneAt == cv.final.started /\ self.tune_step_at # None

\* C14 as stated: whenever tune_step_at is configured and the winning count
\* is below it, the final run is made with tune_step_at = None.
C14_DisabledWhenWinnerBelow ==
    (FinalWithTuneAt
       /\ cv.n_features_to_select < tune_step_at_local(self, cv.n_features)) =>
        cv.final.tune_step_at = None

\* C14 amended: whenever tune_step_at is configured, the final run is made
\* with tune_step_at = None exactly when the winning count is at or above
\* it; when the winning count is below it the final run keeps it, and the
\* final ExtendedRFE accepts its parameters.
C14_DisabledWhenWinnerNotBelow ==
    FinalWithTuneAt =>
        LET tsa == tune_step_at_local(self, cv.n_features)
        IN /\ cv.n_features_to_select >= tsa => cv.final.tune_step_at = None
           /\ cv.n_features_to_select < tsa =>
                 cv.final.tune_step_at = Num(tsa)
           /\ cv.pc # "error"

\* tune_step_at = 2 on three features: the winning count 1 is below it, and
\* the final run was made with tune_step_at = 2 and selected one feature
C14_Witness ==
    /\ cv.pc = "done"
    /\ self.tune_step_at = Num(2)
    /\ cv.n_features_to_select = 1
    /\ cv.final.tune_step_at = Num(2)
    /\ cv.attributes.n_features_ = 1

\* the sum over the folds of what each fold's own fit scored for entry i of
\* the count sequence
RECURSIVE OwnSum(_, _)
OwnSum(i, n_folds) ==
    IF n_folds = 0 THEN 0 ELSE cv.own[n_folds][i] + OwnSum(i, n_folds - 1)

\* C15: after fit, for every index i, grid_scores_[i] is the fold-averaged
\* score of the feature subset whose size is n_remaining_feature_steps_[i].
C15_GridScoresIndexedByCounts ==
    cv.pc = "done" =>
        /\ Len(cv.attributes.grid_scores_)
              = Len(cv.attributes.n_remaining_feature_steps_)
        /\ \A i \in 1..Len(cv.attributes.grid_scores_) :
              cv.attributes.grid_scores_[i]
                  = [num |-> OwnSum(i, cv.n_folds), den |-> cv.n_folds]

\* C16: no feature count below min_features_to_select is scored or chosen:
\* the winning count, every scored count and the final n_features_ are at
\* least min_features_to_select.
C16_NeverBelowMinFeatures ==
    PastFolds =>
        /\ cv.n_features_to_select >= self.n_features_to_select
        /\ \A i \in 1..Len(cv.n_remaining_feature_steps) :
              cv.n_remaining_feature_steps[i] >= self.n_features_to_select
        /\ cv.attributes.has =>
              cv.attributes.n_features_ >= self.n_features_to_select

CVRaised == cv.pc \in {"raised", "error", "refit_raised"}

\* C21: when fit raises, at any point up to and including the final refit,
\* the fitted state support_, ranking_, n_features_ and estimator_ is as it
\* was before the call (here: the object had none); the fitted state is only
\* replaced as a whole at the end of a fit that succeeds.
C21_RaiseLeavesFittedState ==
    CVRaised => cv.attributes = NoAttributes

\* C27: when fit is called with feature metadata and the penalty column set,
\* the metadata reaches the final elimination on the whole data, which keeps
\* the features counted as kept before the folds, and fit does not end in the
\* configuration error of _check_params; the features it selects include
\* every kept feature.
C27_MetadataReachesFinalFit ==
    (self.penalty_factor_meta_col /\ data.feature_meta
       /\ data.meta_has_col /\ data.meta_rows = data.n_columns) =>
        /\ cv.final.started => cv.final.feature_meta
        /\ cv.pc # "error"
        /\ cv.attributes.has =>
              cv.attributes.n_features_ >= Cardinality(data.penalty_zero)

\* the count sequence the schedule of the fold tasks gives
FoldCounts ==
    get_steps(self, cv.n_features,
              self.n_features_to_select).n_remaining_feature_steps

\* C28: in every fold the score sequence has exactly one entry per entry of
\* the remaining-feature-count sequence, the final smallest subset included:
\* the subsets that are scored are those of the count sequence, position by
\* position, so that the reversed argmax pairs each summed score with the
\* count it was measured at.
C28_OneScorePerCount ==
    \A f \in 1..cv.n_folds :
        cv.task[f] \in {"fitted", "returned"} =>
            /\ cv.scored[f] = FoldCounts
            /\ Len(cv.own[f]) = Len(cv.scored[f])

====
